---- MODULE Spec2Model ----
(***************************************************************************)
(* Model of the LoRaWAN AT-command driver of src/client.py (class LoRa):   *)
(* the command channel (_send_cmd), the OTAA join (join), the bounded      *)
(* message queue (send) and the background transmit worker (_worker_loop). *)
(*                                                                         *)
(* Two threads of control: the foreground caller ("fg") and the worker     *)
(* ("worker").  Time is discrete, one unit per second.  The code only ever *)
(* uses differences of time.time(), so the model keeps those differences   *)
(* (send_elapsed, join_elapsed, the remaining sleeps) and Tick advances    *)
(* them all.  A sleep lasts at least its duration; sub-second sleeps       *)
(* (0.05 s, 0.5 s, 0.8 s) round down to no wait at all.                    *)
(***************************************************************************)
EXTENDS Naturals, Sequences, FiniteSets, TLC

\* ------------------------------------------------------------ constants
SEND_INTERVAL == 30
MAX_RETRIES == 3
MAX_QUEUE_SIZE == 20
MAX_PAYLOAD == 242
JOIN_TIMEOUT_DEFAULT == 60
JOIN_POLL_SLEEP == 5
RETRY_SLEEP == 2
RX_WINDOW_SLEEP == 3
QUEUE_GET_TIMEOUT == 1
STOP_JOIN_TIMEOUT == 10
REBOOT_SLEEP == 1
TEST_AT_TRIES == 3
DEFAULT_TIMEOUT == 3
REBOOT_TIMEOUT == 2
JOIN_REQUEST_TIMEOUT == 5
SEND_TIMEOUT == 10

\* ---------------------------------------------------------------- bounds
\* Longest raw reply text enumerated for the response parser.
MaxLen == 4
\* Number of API calls the application makes after construction.
MaxCalls == 3
\* The timeout the application passes to an explicit join().
AppJoinTimeout == 6
LiveCalls == 2
\* Payload numbers the burst producer cycles through (more than the queue holds).
BurstPayloads == 5
\* Exchanges made one after another on the serial line.
MaxCmds == 3
\* The longest the module takes to reply to a command, in seconds.
MaxReplyDelay == 5

\* ------------------------------------------------------------------ text
\* A text is a sequence of one-character strings.
OK_TOKEN == <<"O", "K">>
EQ_OK == <<"=", "O", "K">>
BAD_BYTE == "#"
\* The characters str.strip() removes: those for which str.isspace() holds.
\* ASCII: tab, line feed, vertical tab (0x0B), form feed, carriage return,
\* the separators 0x1C to 0x1F and the blank.
ASCII_WHITESPACE ==
    {"\t", "\n", "", "\f", "\r", "", "", "", "", " "}
\* Beyond ASCII: U+0085, U+00A0 and U+1680 are written as themselves; the
\* remaining ones (U+2000 to U+200A, U+2028, U+2029, U+202F, U+205F,
\* U+3000) cannot be written in a string here and are named by code point.
UNICODE_WHITESPACE ==
    {"", " ", " ",
     "U+2000", "U+2001", "U+2002", "U+2003", "U+2004", "U+2005", "U+2006",
     "U+2007", "U+2008", "U+2009", "U+200A", "U+2028", "U+2029", "U+202F",
     "U+205F", "U+3000"}
WHITESPACE == ASCII_WHITESPACE \cup UNICODE_WHITESPACE
Alphabet == {"O", "K", "=", "1", " ", "\t", BAD_BYTE}

RECURSIVE TextsOfLen(_)
TextsOfLen(n) ==
    IF n = 0 THEN {<<>>}
    ELSE {Append(t, c) : t \in TextsOfLen(n - 1), c \in Alphabet}

Texts == UNION {TextsOfLen(n) : n \in 0..MaxLen}

\* bytes.decode(errors="ignore"): undecodable bytes are dropped.
Decode(bytes) == SelectSeq(bytes, LAMBDA c : c # BAD_BYTE)

RECURSIVE LStrip(_)
LStrip(s) ==
    IF s # <<>> /\ s[1] \in WHITESPACE THEN LStrip(Tail(s)) ELSE s

RECURSIVE RStrip(_)
RStrip(s) ==
    IF s # <<>> /\ s[Len(s)] \in WHITESPACE
    THEN RStrip(SubSeq(s, 1, Len(s) - 1))
    ELSE s

\* str.strip()
Strip(s) == RStrip(LStrip(s))

\* sub in s
Contains(s, sub) ==
    \E i \in 1..(Len(s) - Len(sub) + 1) : SubSeq(s, i, i + Len(sub) - 1) = sub

\* s.split("=", 1): at most one split, at the leftmost "=".
SplitFirstEq(s) ==
    IF \E i \in 1..Len(s) : s[i] = "="
    THEN LET i == CHOOSE k \in 1..Len(s) :
                      s[k] = "=" /\ \A j \in 1..(k - 1) : s[j] # "="
         IN  <<SubSeq(s, 1, i - 1), SubSeq(s, i + 1, Len(s))>>
    ELSE <<s>>

\* Fault in ParseResponse: the "=OK" test is left out.
ParseResponseNoEqOk(response_str) ==
    IF response_str = OK_TOKEN
    THEN <<TRUE, <<>>>>
    ELSE IF Contains(response_str, <<"=">>)
         THEN LET parts == SplitFirstEq(response_str)
              IN  <<TRUE, IF Len(parts) = 2 THEN Strip(parts[2]) ELSE <<>>>>
         ELSE <<FALSE, <<>>>>

\* _send_cmd, "Parse response": the (success, response_data) pair.
ParseResponse(response_str) ==
    IF response_str = OK_TOKEN \/ Contains(response_str, EQ_OK)
    THEN <<TRUE, <<>>>>
    ELSE IF Contains(response_str, <<"=">>)
         THEN LET parts == SplitFirstEq(response_str)
              IN  <<TRUE, IF Len(parts) = 2 THEN Strip(parts[2]) ELSE <<>>>>
         ELSE <<FALSE, <<>>>>

\* response.decode(errors="ignore").strip(), then the parse.
ReadResponse(response) == ParseResponse(Strip(Decode(response)))

\* ----------------------------------------------------------------- state
VARIABLES
    _serial,          \* self._serial: "none", "open" or "closed"
    _serial_lock,     \* holder of self._serial_lock: "free", "fg" or "worker"
    _joined,          \* self._joined
    _running,         \* self._running
    _queue,           \* self._queue: sequence of QueuedMessage, head first
    _worker_thread,   \* self._worker_thread: "none", "alive" or "dead"
    send_elapsed,     \* time.time() - self._last_send_time, capped at SEND_INTERVAL
    fg_pc,            \* position of the foreground thread
    fg_ex,            \* its position inside _send_cmd
    fg_cmd,           \* the command of its current exchange
    fg_res,           \* the (ok, data) its last exchange returned
    fg_sleep,         \* seconds left of its current sleep or timed wait
    caller,           \* who called join: "ctor" or "app"
    cmd_idx,          \* index into config_commands
    timeout,          \* join's timeout argument
    join_elapsed,     \* time.time() - start in join, capped at timeout
    at_tries,         \* iterations of _test_at done
    data,             \* argument of the current send() call
    fg_ret,           \* what the last API call returned or raised
    calls,            \* API calls the application may still make
    app,              \* the application: how it picks payloads
    wk_pc,            \* position of the worker thread
    wk_ex,            \* its position inside _send_cmd
    wk_res,           \* the (ok, data) its last exchange returned
    wk_sleep,         \* seconds left of its current sleep or timed wait
    msg,              \* the QueuedMessage the worker holds
    attempt,          \* loop variable of the retry loop
    wait_time,        \* wait_time of the rate-limit loop
    success,          \* success flag of the retry loop
    tries,            \* calls of _do_send made for msg
    rx,               \* raw reply handed to the response parser
    parsed,           \* the parser's result for rx
    line_pc,          \* serial line: position inside _send_cmd
    line_cmd,         \* serial line: number of the command being exchanged
    line_left,        \* serial line: seconds left until end_time
    line_res,         \* serial line: what the last exchange returned
    response,         \* serial line: `response`, as the chunks read
    input_buffer,     \* serial line: received and unread chunks of the port
    module            \* serial line: replies the module has yet to emit

objvars == <<_serial, _serial_lock, _joined, _running, _queue, _worker_thread,
             send_elapsed>>
fgvars == <<fg_pc, fg_ex, fg_cmd, fg_res, fg_sleep, caller, cmd_idx, timeout,
            join_elapsed, at_tries, data, fg_ret, calls, app>>
wkvars == <<wk_pc, wk_ex, wk_res, wk_sleep, msg, attempt, wait_time, success,
            tries>>
linevars == <<line_pc, line_cmd, line_left, line_res, response, input_buffer,
              module>>
parsevars == <<rx, parsed, linevars>>
vars == <<objvars, fgvars, wkvars, parsevars>>

NONE == "none"
NO_RES == <<FALSE, <<>>>>

\* No API call has returned yet, or one is under way.
NO_RET == [op |-> NONE, arg |-> 0, val |-> <<>>]

\* self._last_send_time = 0.0 is the epoch: until the first send the
\* elapsed time is longer than any SEND_INTERVAL.
NEVER_SENT == SEND_INTERVAL + 1

\* QueuedMessage(data=payload): retries defaults to 0.  A payload is
\* represented by its length in bytes; payloads of different lengths differ.
QueuedMessage(payload) == [data |-> payload, retries |-> 0]

\* The worker holds no message.
NO_MSG == [data |-> 0, retries |-> 0]

\* Fault in config_commands: the application key is sent before the
\* join EUI.
config_commands_keys_swapped == <<
    [cmd |-> "AT+LORAMODE=LORAWAN", critical |-> FALSE],
    [cmd |-> "AT+JOINTYPE=OTAA", critical |-> FALSE],
    [cmd |-> "AT+REGION", critical |-> FALSE],
    [cmd |-> "AT+CLASS=CLASS_A", critical |-> FALSE],
    [cmd |-> "AT+DATARATE", critical |-> FALSE],
    [cmd |-> "AT+EIRP=14", critical |-> FALSE],
    [cmd |-> "AT+ADR=0", critical |-> FALSE],
    [cmd |-> "AT+UPLINKTYPE=UNCONFIRMED", critical |-> FALSE],
    [cmd |-> "AT+APPKEY", critical |-> TRUE],
    [cmd |-> "AT+JOINEUI", critical |-> TRUE] >>

\* join, config_commands: (cmd, critical).  Parameter values are left out.
config_commands == <<
    [cmd |-> "AT+LORAMODE=LORAWAN", critical |-> FALSE],
    [cmd |-> "AT+JOINTYPE=OTAA", critical |-> FALSE],
    [cmd |-> "AT+REGION", critical |-> FALSE],
    [cmd |-> "AT+CLASS=CLASS_A", critical |-> FALSE],
    [cmd |-> "AT+DATARATE", critical |-> FALSE],
    [cmd |-> "AT+EIRP=14", critical |-> FALSE],
    [cmd |-> "AT+ADR=0", critical |-> FALSE],
    [cmd |-> "AT+UPLINKTYPE=UNCONFIRMED", critical |-> FALSE],
    [cmd |-> "AT+JOINEUI", critical |-> TRUE],
    [cmd |-> "AT+APPKEY", critical |-> TRUE] >>

\* Raw replies of the module in the state machine; <<>> is silence until
\* the exchange's timeout.
Replies == {
    <<>>,
    <<"O", "K", "\r", "\n">>,
    <<"+", "=", "O", "K", "\r", "\n">>,
    <<"+", "=", "1", "\r", "\n">>,
    <<"+", "=", "0", "\r", "\n">>,
    <<"E", "R", "R", "\r", "\n">> }

\* Further replies the module gives to a query: a value that is not a
\* number, a number with a leading zero, and a negative number written
\* with an Arabic-Indic digit.
QueryReplies == {
    <<"+", "=", "K", "\r", "\n">>,
    <<"+", "=", "0", "1", "\r", "\n">>,
    <<"+", "=", "-", "U+0663", "\r", "\n">> }

\* The replies the module can give to `cmd`.
RepliesTo(cmd) ==
    IF cmd \in {"AT+DEVEUI?", "AT+RSSI?", "AT+SNR?"}
    THEN Replies \cup QueryReplies
    ELSE Replies

\* Payload lengths the application passes to send().
Payloads == {0, 1, MAX_PAYLOAD, MAX_PAYLOAD + 1}

\* The serial line before any exchange: nothing written, nothing received.
InitLineIdle ==
    /\ line_pc = "idle"
    /\ line_cmd = 0
    /\ line_left = 0
    /\ line_res = NO_RES
    /\ response = <<>>
    /\ input_buffer = <<>>
    /\ module = {}

\* __init__, up to the try block.
InitObject ==
    /\ _serial = NONE
    /\ _serial_lock = "free"
    /\ _joined = FALSE
    /\ _running = FALSE
    /\ _queue = <<>>
    /\ _worker_thread = NONE
    /\ send_elapsed = NEVER_SENT
    /\ fg_pc = "new"
    /\ fg_ex = "idle"
    /\ fg_cmd = NONE
    /\ fg_res = NO_RES
    /\ fg_sleep = 0
    /\ caller = NONE
    /\ cmd_idx = 0
    /\ timeout = 0
    /\ join_elapsed = 0
    /\ at_tries = 0
    /\ data = 0
    /\ fg_ret = NO_RET
    /\ wk_pc = "unstarted"
    /\ wk_ex = "idle"
    /\ wk_res = NO_RES
    /\ wk_sleep = 0
    /\ msg = NO_MSG
    /\ attempt = 0
    /\ wait_time = 0
    /\ success = FALSE
    /\ tries = 0

Init ==
    /\ InitObject
    /\ calls = MaxCalls
    /\ app \in {[mode |-> "free", n |-> 0, auto_join |-> b] : b \in BOOLEAN}
    /\ rx = <<>>
    /\ parsed = <<>>
    /\ InitLineIdle

\* ------------------------------------------------- foreground: _send_cmd
\* A call of _send_cmd(cmd) by the foreground thread, returning to `site`.
FgSendCmd(cmd, site) ==
    /\ fg_pc' = site
    /\ fg_ex' = "call"
    /\ fg_cmd' = cmd
    /\ fg_res' = NO_RES

\* The timeout argument _send_cmd is called with for `cmd`.
CmdTimeout(cmd) ==
    IF cmd = "AT+REBOOT" THEN REBOOT_TIMEOUT
    ELSE IF cmd = "AT+JOIN=1" THEN JOIN_REQUEST_TIMEOUT
    ELSE IF cmd = "AT+SEND" THEN SEND_TIMEOUT
    ELSE DEFAULT_TIMEOUT

\* The longest an exchange holds the lock, in whole seconds: the 0.8 s
\* settle delay and then the read loop, which ends at `timeout`.
ExchangeTime(t) == t + 1

\* Fault in LockFree: the lock is taken whoever holds it.
LockFreeAlways == TRUE

\* threading.Lock: `with self._serial_lock` enters only when nobody holds it.
LockFree == _serial_lock = "free"

\* _send_cmd: the open check before the lock.
FgExCheck ==
    /\ fg_ex = "call"
    /\ fg_ex' = IF _serial # "open" THEN "ret" ELSE "lock"
    /\ UNCHANGED <<objvars, wkvars, parsevars, fg_pc, fg_cmd, fg_res, fg_sleep,
                   caller, cmd_idx, timeout, join_elapsed, at_tries, data,
                   fg_ret, calls, app>>

\* _send_cmd: take the lock, reset the input buffer, write the command.
\* On a port that is no longer open the write raises SerialException.
FgExAcquire ==
    /\ fg_ex = "lock"
    /\ LockFree
    /\ IF _serial = "open"
       THEN /\ _serial_lock' = "fg"
            /\ fg_ex' = "io"
            /\ fg_sleep' = ExchangeTime(CmdTimeout(fg_cmd))
       ELSE fg_ex' = "ret" /\ UNCHANGED <<_serial_lock, fg_sleep>>
    /\ UNCHANGED <<_serial, _joined, _running, _queue, _worker_thread,
                   send_elapsed, wkvars, parsevars, fg_pc, fg_cmd, fg_res,
                   caller, cmd_idx, timeout, join_elapsed, at_tries,
                   data, fg_ret, calls, app>>

\* The read loop can end with `r` when `left` seconds of the exchange
\* remain: a line ends it at once, nothing read ends it at the timeout.
ReadEnds(r, left) == r # <<>> \/ left <= 1

\* _send_cmd: the read loop ends (a line, or the timeout with what was
\* read), the reply is parsed and the lock released.
FgExRespond ==
    /\ fg_ex = "io"
    /\ _serial = "open"
    /\ \E r \in RepliesTo(fg_cmd) :
           ReadEnds(r, fg_sleep) /\ fg_res' = ReadResponse(r)
    /\ fg_ex' = "ret"
    /\ fg_sleep' = 0
    /\ _serial_lock' = "free"
    /\ UNCHANGED <<_serial, _joined, _running, _queue, _worker_thread,
                   send_elapsed, wkvars, parsevars, fg_pc, fg_cmd,
                   caller, cmd_idx, timeout, join_elapsed, at_tries, data,
                   fg_ret, calls, app>>

\* `with self._serial_lock`: leaving the block through the except clause
\* releases the lock like any other exit.
LockAfterSerialError(holder) == "free"

\* _send_cmd: serial.SerialException inside the lock; the except clause
\* returns (False, "").
FgExSerialError ==
    /\ fg_ex = "io"
    /\ fg_res' = NO_RES
    /\ fg_ex' = "ret"
    /\ fg_sleep' = 0
    /\ _serial_lock' = LockAfterSerialError(_serial_lock)
    /\ UNCHANGED <<_serial, _joined, _running, _queue, _worker_thread,
                   send_elapsed, wkvars, parsevars, fg_pc, fg_cmd,
                   caller, cmd_idx, timeout, join_elapsed, at_tries, data,
                   fg_ret, calls, app>>

\* _send_cmd: `except serial.SerialException` is the only handler, so an
\* exception of any other type raised by the port inside the lock leaves
\* _send_cmd for its caller.
ExitOnOtherError == "raise"

\* _send_cmd: the port raises an exception that is no SerialException
\* (an OSError of the device, or the error of a read on a port closed
\* under the exchange); the `with` block releases the lock on the way out.
FgExOtherError ==
    /\ fg_ex = "io"
    /\ fg_res' = NO_RES
    /\ fg_ex' = ExitOnOtherError
    /\ fg_sleep' = 0
    /\ _serial_lock' = "free"
    /\ UNCHANGED <<_serial, _joined, _running, _queue, _worker_thread,
                   send_elapsed, wkvars, parsevars, fg_pc, fg_cmd,
                   caller, cmd_idx, timeout, join_elapsed, at_tries, data,
                   fg_ret, calls, app>>

\* ------------------------------------------ foreground: __init__, _connect
\* The locals of a call go out of scope when it returns or raises.
FgLocalsCleared ==
    /\ fg_ex' = "idle"
    /\ fg_cmd' = NONE
    /\ fg_res' = NO_RES
    /\ fg_sleep' = 0
    /\ caller' = NONE
    /\ cmd_idx' = 0
    /\ timeout' = 0
    /\ join_elapsed' = 0
    /\ at_tries' = 0
    /\ data' = 0

\* An API call hands `ret` (a value or a LoRaError) to the application.
FgReturn(ret) ==
    /\ fg_pc' = "idle"
    /\ fg_ret' = ret
    /\ FgLocalsCleared

\* _cleanup: clear the running flag, close the port if it is open.  The
\* states of the port afterwards: close() closes it, or raises, which
\* `except Exception: pass` swallows, and the port is left open.
CleanupSerial == IF _serial = "open" THEN {"closed", "open"} ELSE {_serial}

\* __init__'s except clause: _cleanup, then LoRaError("Initialization
\* failed: e").  The object is never handed to the application.
InitFailed(e) ==
    /\ fg_pc' = "dead"
    /\ fg_ret' = [op |-> "init", arg |-> 0, val |-> e]
    /\ _running' = FALSE
    /\ _serial' \in CleanupSerial
    /\ FgLocalsCleared

\* __init__: serial.Serial(...) opens the port, then AT+REBOOT.
Construct ==
    /\ fg_pc = "new"
    /\ _serial' = "open"
    /\ FgSendCmd("AT+REBOOT", "reboot")
    /\ UNCHANGED <<_serial_lock, _joined, _running, _queue, _worker_thread,
                   send_elapsed, wkvars, parsevars, fg_sleep, caller, cmd_idx,
                   timeout, join_elapsed, at_tries, data, fg_ret, calls, app>>

\* __init__: serial.Serial(...) raises.
ConstructFail ==
    /\ fg_pc = "new"
    /\ InitFailed(<<"could not open port">>)
    /\ UNCHANGED <<_serial_lock, _joined, _queue, _worker_thread,
                   send_elapsed, wkvars, parsevars, calls, app>>

\* _connect: the reboot's result is ignored; time.sleep(1).
ConnectRebooted ==
    /\ fg_pc = "reboot"
    /\ fg_ex = "ret"
    /\ fg_ex' = "idle"
    /\ fg_cmd' = NONE
    /\ fg_res' = NO_RES
    /\ fg_pc' = "reboot_sleep"
    /\ fg_sleep' = REBOOT_SLEEP
    /\ UNCHANGED <<objvars, wkvars, parsevars, caller, cmd_idx, timeout,
                   join_elapsed, at_tries, data, fg_ret, calls, app>>

\* _test_at: the first "AT".
ConnectTestAt ==
    /\ fg_pc = "reboot_sleep"
    /\ fg_sleep = 0
    /\ at_tries' = 0
    /\ FgSendCmd("AT", "test_at")
    /\ UNCHANGED <<objvars, wkvars, parsevars, fg_sleep, caller, cmd_idx,
                   timeout, join_elapsed, data, fg_ret, calls, app>>

\* join(): logger.info, then the first configuration command.
JoinBegin(who, t) ==
    /\ caller' = who
    /\ timeout' = t
    /\ cmd_idx' = 1
    /\ join_elapsed' = 0
    /\ at_tries' = 0
    /\ FgSendCmd(config_commands[1].cmd, "join_config")

\* Fault in AfterConnect: _start_worker() is outside the `if`.
AfterConnectAlwaysWorker(auto_join) ==
    IF auto_join THEN "join" ELSE "start_worker"

\* __init__ after _connect: `if auto_join and app_eui and app_key:` join,
\* then start the worker; otherwise the constructor is done.
AfterConnect(auto_join) == IF auto_join THEN "join" ELSE "return"

\* _test_at returned: on ok the module is connected, and __init__ joins
\* (auto_join with credentials) or is done; a failed probe is repeated,
\* the third failure raises and __init__ cleans up.
ConnectTested ==
    /\ fg_pc = "test_at"
    /\ fg_ex = "ret"
    /\ IF fg_res[1]
       THEN CASE AfterConnect(app.auto_join) = "join" ->
                    /\ JoinBegin("ctor", JOIN_TIMEOUT_DEFAULT)
                    /\ UNCHANGED <<fg_sleep, data, fg_ret, objvars>>
              [] AfterConnect(app.auto_join) = "start_worker" ->
                    /\ fg_pc' = "start_worker"
                    /\ FgLocalsCleared
                    /\ UNCHANGED <<fg_ret, objvars>>
              [] OTHER ->
                    /\ FgReturn([op |-> "init", arg |-> 0, val |-> <<"ok">>])
                    /\ UNCHANGED objvars
       ELSE IF at_tries + 1 < TEST_AT_TRIES
            THEN /\ at_tries' = at_tries + 1
                 /\ FgSendCmd("AT", "test_at")
                 /\ UNCHANGED <<fg_sleep, data, fg_ret, caller, timeout,
                                cmd_idx, join_elapsed, objvars>>
            ELSE /\ InitFailed(<<"Module not responding">>)
                 /\ UNCHANGED <<_serial_lock, _joined, _queue, _worker_thread,
                                send_elapsed>>
    /\ UNCHANGED <<wkvars, parsevars, calls, app>>

\* ------------------------------------------------------ foreground: join
\* raise LoRaError(e) inside join: __init__ catches it, cleans up and
\* re-raises; an explicit join() hands it to the application.
JoinRaise(e) ==
    IF caller = "ctor"
    THEN InitFailed(e)
    ELSE FgReturn([op |-> "join", arg |-> 0, val |-> e]) /\ UNCHANGED <<_running, _serial>>

\* What the application sees of an exception the port raised.
IO_ERROR == <<"I/O error">>

\* An exception left _send_cmd in the foreground thread.  No caller
\* catches it: inside __init__ (in _connect, _test_at or the automatic
\* join) the except clause cleans up and raises LoRaError; from an
\* explicit join() or from dev_eui, rssi, snr it reaches the application.
FgExRaised ==
    /\ fg_ex = "raise"
    /\ IF fg_pc \in {"reboot", "test_at"} \/ caller = "ctor"
       THEN /\ InitFailed(IO_ERROR)
            /\ UNCHANGED <<_serial_lock, _joined, _queue, _worker_thread,
                           send_elapsed>>
       ELSE /\ FgReturn([op |-> IF fg_pc = "query" THEN fg_cmd ELSE "join",
                         arg |-> 0, val |-> IO_ERROR])
            /\ UNCHANGED objvars
    /\ UNCHANGED <<wkvars, parsevars, calls, app>>

\* Fault in AbortsJoin: an advisory failure aborts as well.
AbortsJoinAnyFailure(ok, critical) == ~ok

\* join, configuration loop: `if not ok and critical: raise`.
AbortsJoin(ok, critical) == ~ok /\ critical

\* join: a configuration command returned.
JoinConfigured ==
    /\ fg_pc = "join_config"
    /\ fg_ex = "ret"
    /\ IF AbortsJoin(fg_res[1], config_commands[cmd_idx].critical)
       THEN JoinRaise(<<"Failed to execute", config_commands[cmd_idx].cmd>>)
       ELSE /\ IF cmd_idx < Len(config_commands)
               THEN /\ cmd_idx' = cmd_idx + 1
                    /\ FgSendCmd(config_commands[cmd_idx + 1].cmd, "join_config")
               ELSE /\ FgSendCmd("AT+JOIN=1", "join_request")
                    /\ UNCHANGED cmd_idx
            /\ UNCHANGED <<_running, _serial, fg_ret, fg_sleep, caller,
                           timeout, join_elapsed, at_tries, data>>
    /\ UNCHANGED <<_serial_lock, _joined, _queue, _worker_thread, send_elapsed,
                   wkvars, parsevars, calls, app>>

\* join: AT+JOIN=1 returned; on ok, start = time.time().
JoinRequested ==
    /\ fg_pc = "join_request"
    /\ fg_ex = "ret"
    /\ IF ~fg_res[1]
       THEN JoinRaise(<<"Join request rejected by module">>)
       ELSE /\ fg_pc' = "join_loop"
            /\ fg_ex' = "idle"
            /\ fg_cmd' = NONE
            /\ fg_res' = NO_RES
            /\ join_elapsed' = 0
            /\ cmd_idx' = 0
            /\ UNCHANGED <<_running, _serial, fg_ret, fg_sleep, caller,
                           timeout, at_tries, data>>
    /\ UNCHANGED <<_serial_lock, _joined, _queue, _worker_thread, send_elapsed,
                   wkvars, parsevars, calls, app>>

\* Fault in WithinJoinTimeout: the deadline is never reached.
WithinJoinTimeoutAlways == TRUE

\* join: `while time.time() - start < timeout`.
WithinJoinTimeout == join_elapsed < timeout

\* join: the loop test; a poll, or the join-timeout error.
JoinLoop ==
    /\ fg_pc = "join_loop"
    /\ IF WithinJoinTimeout
       THEN /\ FgSendCmd("AT+JOIN?", "join_poll")
            /\ UNCHANGED <<_running, _serial, fg_ret, fg_sleep, caller,
                           cmd_idx, timeout, join_elapsed, at_tries, data>>
       ELSE JoinRaise(<<"Join timeout">>)
    /\ UNCHANGED <<_serial_lock, _joined, _queue, _worker_thread, send_elapsed,
                   wkvars, parsevars, calls, app>>

\* Fault in JoinAccepted: any ok reply counts as the accept.
JoinAcceptedAnyOk(res) == res[1]

\* join: `if ok and data == "1"`.
JoinAccepted(res) == res[1] /\ res[2] = <<"1">>

\* Fault in JoinedAfterPoll: the flag is assigned from every poll.
JoinedAfterPollAssigned(res) == JoinAccepted(res)

\* join: `self._joined = True` inside the `if`, no assignment otherwise.
JoinedAfterPoll(res) == IF JoinAccepted(res) THEN TRUE ELSE _joined

\* join: AT+JOIN? returned; joined, or time.sleep(5).
JoinPolled ==
    /\ fg_pc = "join_poll"
    /\ fg_ex = "ret"
    /\ _joined' = JoinedAfterPoll(fg_res)
    /\ IF JoinAccepted(fg_res)
       THEN IF caller = "ctor"
            THEN /\ fg_pc' = "start_worker"
                 /\ FgLocalsCleared
                 /\ UNCHANGED fg_ret
            ELSE FgReturn([op |-> "join", arg |-> 0, val |-> <<"ok">>])
       ELSE /\ fg_pc' = "join_sleep"
            /\ fg_sleep' = JOIN_POLL_SLEEP
            /\ fg_ex' = "idle"
            /\ fg_cmd' = NONE
            /\ fg_res' = NO_RES
            /\ UNCHANGED <<fg_ret, caller, cmd_idx, timeout,
                           join_elapsed, at_tries, data>>
    /\ UNCHANGED <<_serial, _serial_lock, _running, _queue, _worker_thread,
                   send_elapsed, wkvars, parsevars, calls, app>>

\* join: time.sleep(5) is over, back to the loop test.
JoinSlept ==
    /\ fg_pc = "join_sleep"
    /\ fg_sleep = 0
    /\ fg_pc' = "join_loop"
    /\ UNCHANGED <<objvars, wkvars, parsevars, fg_ex, fg_cmd, fg_res, fg_sleep,
                   caller, cmd_idx, timeout, join_elapsed, at_tries, data,
                   fg_ret, calls, app>>

\* __init__ after join: _start_worker.
StartWorker ==
    /\ fg_pc = "start_worker"
    /\ _running' = TRUE
    /\ _worker_thread' = "alive"
    /\ wk_pc' = "top"
    /\ fg_pc' = "worker_started"
    /\ UNCHANGED <<_serial, _serial_lock, _joined, _queue, send_elapsed,
                   parsevars, fg_ex, fg_cmd, fg_res, fg_sleep, caller, cmd_idx,
                   timeout, join_elapsed, at_tries, data, fg_ret, calls, app,
                   wk_ex, wk_res, wk_sleep, msg, attempt, wait_time, success,
                   tries>>

\* thread.start() has returned: _start_worker and __init__ return.  The
\* worker may have run any number of its steps by then.
WorkerStarted ==
    /\ fg_pc = "worker_started"
    /\ fg_pc' = "idle"
    /\ fg_ret' = [op |-> "init", arg |-> 0, val |-> <<"ok">>]
    /\ UNCHANGED <<objvars, wkvars, parsevars, fg_ex, fg_cmd, fg_res, fg_sleep,
                   caller, cmd_idx, timeout, join_elapsed, at_tries, data,
                   calls, app>>

\* ------------------------------------------------------ foreground: send
\* The payload the burst producer sends next: lengths 1, 2, ... and the
\* largest admissible one last.
BurstPayload(n) == IF n = BurstPayloads THEN MAX_PAYLOAD ELSE n

\* What the application may pass to send().
SendChoices ==
    IF app.mode = "burst"
    THEN {0, MAX_PAYLOAD + 1, BurstPayload(app.n)}
    ELSE Payloads

\* The application calls send(data).
CallSend ==
    /\ fg_pc = "idle"
    /\ app.mode = "free" => calls > 0
    /\ \E p \in SendChoices : data' = p
    /\ fg_pc' = "send"
    /\ calls' = IF app.mode = "free" THEN calls - 1 ELSE calls
    /\ fg_ret' = NO_RET
    /\ UNCHANGED <<objvars, wkvars, parsevars, fg_ex, fg_cmd, fg_res, fg_sleep,
                   caller, cmd_idx, timeout, join_elapsed, at_tries, app>>

\* Fault in PayloadAdmissible: the empty payload is let through.
PayloadAdmissibleEmpty(payload) == ~(payload > MAX_PAYLOAD)

\* send: neither `len(payload) == 0` nor `len(payload) > 242`.
PayloadAdmissible(payload) == ~(payload = 0) /\ ~(payload > MAX_PAYLOAD)

\* Fault in QueueIsFull: one message too many is let in.
QueueIsFullOffByOne(q) == Len(q) > MAX_QUEUE_SIZE

\* Queue(maxsize).put_nowait raises Full when qsize() >= maxsize.
QueueIsFull(q) == Len(q) >= MAX_QUEUE_SIZE

\* Fault in QueuePut: the item goes to the head.
QueuePutHead(q, item) == <<item>> \o q

\* Queue._put: append to the tail.
QueuePut(q, item) == Append(q, item)

\* send(data): the body, up to its return.
Send ==
    /\ fg_pc = "send"
    /\ LET accepted == /\ _joined
                       /\ PayloadAdmissible(data)
                       /\ ~QueueIsFull(_queue)
       IN  /\ _queue' = IF accepted
                        THEN QueuePut(_queue, QueuedMessage(data))
                        ELSE _queue
           /\ FgReturn([op |-> "send", arg |-> data,
                        val |-> IF accepted THEN <<"True">> ELSE <<"False">>])
           /\ app' = IF app.mode = "burst" /\ accepted
                     THEN [app EXCEPT !.n = (app.n % BurstPayloads) + 1]
                     ELSE app
    /\ UNCHANGED <<_serial, _serial_lock, _joined, _running, _worker_thread,
                   send_elapsed, wkvars, parsevars, calls>>

\* ------------------------------------- foreground: join, queries, stop
\* The application calls join(app_eui, app_key, timeout).
CallJoin ==
    /\ fg_pc = "idle"
    /\ calls > 0
    /\ calls' = calls - 1
    /\ JoinBegin("app", AppJoinTimeout)
    /\ fg_ret' = NO_RET
    /\ UNCHANGED <<objvars, wkvars, parsevars, fg_sleep, data, app>>

\* The commands of the dev_eui, rssi and snr properties.
Queries == {"AT+DEVEUI?", "AT+RSSI?", "AT+SNR?"}

\* The application reads dev_eui, rssi or snr.
CallQuery ==
    /\ fg_pc = "idle"
    /\ calls > 0
    /\ calls' = calls - 1
    /\ \E q \in Queries : FgSendCmd(q, "query")
    /\ fg_ret' = NO_RET
    /\ UNCHANGED <<objvars, wkvars, parsevars, fg_sleep, caller, cmd_idx,
                   timeout, join_elapsed, at_tries, data, app>>

\* The ten ASCII digits, in order of value.
ASCII_DIGITS == <<"0", "1", "2", "3", "4", "5", "6", "7", "8", "9">>

\* The decimal digits int() reads: every character of Unicode category Nd,
\* as 66 runs of ten in order of value (Unicode 14.0.0, the database of the
\* Python that runs the driver).  A digit beyond ASCII is named by its code
\* point, like the whitespace characters above.
DIGITS == <<
    <<"0", "1", "2", "3", "4", "5", "6", "7", "8", "9">>,
    <<"U+0660", "U+0661", "U+0662", "U+0663", "U+0664",
      "U+0665", "U+0666", "U+0667", "U+0668", "U+0669">>,
    <<"U+06F0", "U+06F1", "U+06F2", "U+06F3", "U+06F4",
      "U+06F5", "U+06F6", "U+06F7", "U+06F8", "U+06F9">>,
    <<"U+07C0", "U+07C1", "U+07C2", "U+07C3", "U+07C4",
      "U+07C5", "U+07C6", "U+07C7", "U+07C8", "U+07C9">>,
    <<"U+0966", "U+0967", "U+0968", "U+0969", "U+096A",
      "U+096B", "U+096C", "U+096D", "U+096E", "U+096F">>,
    <<"U+09E6", "U+09E7", "U+09E8", "U+09E9", "U+09EA",
      "U+09EB", "U+09EC", "U+09ED", "U+09EE", "U+09EF">>,
    <<"U+0A66", "U+0A67", "U+0A68", "U+0A69", "U+0A6A",
      "U+0A6B", "U+0A6C", "U+0A6D", "U+0A6E", "U+0A6F">>,
    <<"U+0AE6", "U+0AE7", "U+0AE8", "U+0AE9", "U+0AEA",
      "U+0AEB", "U+0AEC", "U+0AED", "U+0AEE", "U+0AEF">>,
    <<"U+0B66", "U+0B67", "U+0B68", "U+0B69", "U+0B6A",
      "U+0B6B", "U+0B6C", "U+0B6D", "U+0B6E", "U+0B6F">>,
    <<"U+0BE6", "U+0BE7", "U+0BE8", "U+0BE9", "U+0BEA",
      "U+0BEB", "U+0BEC", "U+0BED", "U+0BEE", "U+0BEF">>,
    <<"U+0C66", "U+0C67", "U+0C68", "U+0C69", "U+0C6A",
      "U+0C6B", "U+0C6C", "U+0C6D", "U+0C6E", "U+0C6F">>,
    <<"U+0CE6", "U+0CE7", "U+0CE8", "U+0CE9", "U+0CEA",
      "U+0CEB", "U+0CEC", "U+0CED", "U+0CEE", "U+0CEF">>,
    <<"U+0D66", "U+0D67", "U+0D68", "U+0D69", "U+0D6A",
      "U+0D6B", "U+0D6C", "U+0D6D", "U+0D6E", "U+0D6F">>,
    <<"U+0DE6", "U+0DE7", "U+0DE8", "U+0DE9", "U+0DEA",
      "U+0DEB", "U+0DEC", "U+0DED", "U+0DEE", "U+0DEF">>,
    <<"U+0E50", "U+0E51", "U+0E52", "U+0E53", "U+0E54",
      "U+0E55", "U+0E56", "U+0E57", "U+0E58", "U+0E59">>,
    <<"U+0ED0", "U+0ED1", "U+0ED2", "U+0ED3", "U+0ED4",
      "U+0ED5", "U+0ED6", "U+0ED7", "U+0ED8", "U+0ED9">>,
    <<"U+0F20", "U+0F21", "U+0F22", "U+0F23", "U+0F24",
      "U+0F25", "U+0F26", "U+0F27", "U+0F28", "U+0F29">>,
    <<"U+1040", "U+1041", "U+1042", "U+1043", "U+1044",
      "U+1045", "U+1046", "U+1047", "U+1048", "U+1049">>,
    <<"U+1090", "U+1091", "U+1092", "U+1093", "U+1094",
      "U+1095", "U+1096", "U+1097", "U+1098", "U+1099">>,
    <<"U+17E0", "U+17E1", "U+17E2", "U+17E3", "U+17E4",
      "U+17E5", "U+17E6", "U+17E7", "U+17E8", "U+17E9">>,
    <<"U+1810", "U+1811", "U+1812", "U+1813", "U+1814",
      "U+1815", "U+1816", "U+1817", "U+1818", "U+1819">>,
    <<"U+1946", "U+1947", "U+1948", "U+1949", "U+194A",
      "U+194B", "U+194C", "U+194D", "U+194E", "U+194F">>,
    <<"U+19D0", "U+19D1", "U+19D2", "U+19D3", "U+19D4",
      "U+19D5", "U+19D6", "U+19D7", "U+19D8", "U+19D9">>,
    <<"U+1A80", "U+1A81", "U+1A82", "U+1A83", "U+1A84",
      "U+1A85", "U+1A86", "U+1A87", "U+1A88", "U+1A89">>,
    <<"U+1A90", "U+1A91", "U+1A92", "U+1A93", "U+1A94",
      "U+1A95", "U+1A96", "U+1A97", "U+1A98", "U+1A99">>,
    <<"U+1B50", "U+1B51", "U+1B52", "U+1B53", "U+1B54",
      "U+1B55", "U+1B56", "U+1B57", "U+1B58", "U+1B59">>,
    <<"U+1BB0", "U+1BB1", "U+1BB2", "U+1BB3", "U+1BB4",
      "U+1BB5", "U+1BB6", "U+1BB7", "U+1BB8", "U+1BB9">>,
    <<"U+1C40", "U+1C41", "U+1C42", "U+1C43", "U+1C44",
      "U+1C45", "U+1C46", "U+1C47", "U+1C48", "U+1C49">>,
    <<"U+1C50", "U+1C51", "U+1C52", "U+1C53", "U+1C54",
      "U+1C55", "U+1C56", "U+1C57", "U+1C58", "U+1C59">>,
    <<"U+A620", "U+A621", "U+A622", "U+A623", "U+A624",
      "U+A625", "U+A626", "U+A627", "U+A628", "U+A629">>,
    <<"U+A8D0", "U+A8D1", "U+A8D2", "U+A8D3", "U+A8D4",
      "U+A8D5", "U+A8D6", "U+A8D7", "U+A8D8", "U+A8D9">>,
    <<"U+A900", "U+A901", "U+A902", "U+A903", "U+A904",
      "U+A905", "U+A906", "U+A907", "U+A908", "U+A909">>,
    <<"U+A9D0", "U+A9D1", "U+A9D2", "U+A9D3", "U+A9D4",
      "U+A9D5", "U+A9D6", "U+A9D7", "U+A9D8", "U+A9D9">>,
    <<"U+A9F0", "U+A9F1", "U+A9F2", "U+A9F3", "U+A9F4",
      "U+A9F5", "U+A9F6", "U+A9F7", "U+A9F8", "U+A9F9">>,
    <<"U+AA50", "U+AA51", "U+AA52", "U+AA53", "U+AA54",
      "U+AA55", "U+AA56", "U+AA57", "U+AA58", "U+AA59">>,
    <<"U+ABF0", "U+ABF1", "U+ABF2", "U+ABF3", "U+ABF4",
      "U+ABF5", "U+ABF6", "U+ABF7", "U+ABF8", "U+ABF9">>,
    <<"U+FF10", "U+FF11", "U+FF12", "U+FF13", "U+FF14",
      "U+FF15", "U+FF16", "U+FF17", "U+FF18", "U+FF19">>,
    <<"U+104A0", "U+104A1", "U+104A2", "U+104A3", "U+104A4",
      "U+104A5", "U+104A6", "U+104A7", "U+104A8", "U+104A9">>,
    <<"U+10D30", "U+10D31", "U+10D32", "U+10D33", "U+10D34",
      "U+10D35", "U+10D36", "U+10D37", "U+10D38", "U+10D39">>,
    <<"U+11066", "U+11067", "U+11068", "U+11069", "U+1106A",
      "U+1106B", "U+1106C", "U+1106D", "U+1106E", "U+1106F">>,
    <<"U+110F0", "U+110F1", "U+110F2", "U+110F3", "U+110F4",
      "U+110F5", "U+110F6", "U+110F7", "U+110F8", "U+110F9">>,
    <<"U+11136", "U+11137", "U+11138", "U+11139", "U+1113A",
      "U+1113B", "U+1113C", "U+1113D", "U+1113E", "U+1113F">>,
    <<"U+111D0", "U+111D1", "U+111D2", "U+111D3", "U+111D4",
      "U+111D5", "U+111D6", "U+111D7", "U+111D8", "U+111D9">>,
    <<"U+112F0", "U+112F1", "U+112F2", "U+112F3", "U+112F4",
      "U+112F5", "U+112F6", "U+112F7", "U+112F8", "U+112F9">>,
    <<"U+11450", "U+11451", "U+11452", "U+11453", "U+11454",
      "U+11455", "U+11456", "U+11457", "U+11458", "U+11459">>,
    <<"U+114D0", "U+114D1", "U+114D2", "U+114D3", "U+114D4",
      "U+114D5", "U+114D6", "U+114D7", "U+114D8", "U+114D9">>,
    <<"U+11650", "U+11651", "U+11652", "U+11653", "U+11654",
      "U+11655", "U+11656", "U+11657", "U+11658", "U+11659">>,
    <<"U+116C0", "U+116C1", "U+116C2", "U+116C3", "U+116C4",
      "U+116C5", "U+116C6", "U+116C7", "U+116C8", "U+116C9">>,
    <<"U+11730", "U+11731", "U+11732", "U+11733", "U+11734",
      "U+11735", "U+11736", "U+11737", "U+11738", "U+11739">>,
    <<"U+118E0", "U+118E1", "U+118E2", "U+118E3", "U+118E4",
      "U+118E5", "U+118E6", "U+118E7", "U+118E8", "U+118E9">>,
    <<"U+11950", "U+11951", "U+11952", "U+11953", "U+11954",
      "U+11955", "U+11956", "U+11957", "U+11958", "U+11959">>,
    <<"U+11C50", "U+11C51", "U+11C52", "U+11C53", "U+11C54",
      "U+11C55", "U+11C56", "U+11C57", "U+11C58", "U+11C59">>,
    <<"U+11D50", "U+11D51", "U+11D52", "U+11D53", "U+11D54",
      "U+11D55", "U+11D56", "U+11D57", "U+11D58", "U+11D59">>,
    <<"U+11DA0", "U+11DA1", "U+11DA2", "U+11DA3", "U+11DA4",
      "U+11DA5", "U+11DA6", "U+11DA7", "U+11DA8", "U+11DA9">>,
    <<"U+16A60", "U+16A61", "U+16A62", "U+16A63", "U+16A64",
      "U+16A65", "U+16A66", "U+16A67", "U+16A68", "U+16A69">>,
    <<"U+16AC0", "U+16AC1", "U+16AC2", "U+16AC3", "U+16AC4",
      "U+16AC5", "U+16AC6", "U+16AC7", "U+16AC8", "U+16AC9">>,
    <<"U+16B50", "U+16B51", "U+16B52", "U+16B53", "U+16B54",
      "U+16B55", "U+16B56", "U+16B57", "U+16B58", "U+16B59">>,
    <<"U+1D7CE", "U+1D7CF", "U+1D7D0", "U+1D7D1", "U+1D7D2",
      "U+1D7D3", "U+1D7D4", "U+1D7D5", "U+1D7D6", "U+1D7D7">>,
    <<"U+1D7D8", "U+1D7D9", "U+1D7DA", "U+1D7DB", "U+1D7DC",
      "U+1D7DD", "U+1D7DE", "U+1D7DF", "U+1D7E0", "U+1D7E1">>,
    <<"U+1D7E2", "U+1D7E3", "U+1D7E4", "U+1D7E5", "U+1D7E6",
      "U+1D7E7", "U+1D7E8", "U+1D7E9", "U+1D7EA", "U+1D7EB">>,
    <<"U+1D7EC", "U+1D7ED", "U+1D7EE", "U+1D7EF", "U+1D7F0",
      "U+1D7F1", "U+1D7F2", "U+1D7F3", "U+1D7F4", "U+1D7F5">>,
    <<"U+1D7F6", "U+1D7F7", "U+1D7F8", "U+1D7F9", "U+1D7FA",
      "U+1D7FB", "U+1D7FC", "U+1D7FD", "U+1D7FE", "U+1D7FF">>,
    <<"U+1E140", "U+1E141", "U+1E142", "U+1E143", "U+1E144",
      "U+1E145", "U+1E146", "U+1E147", "U+1E148", "U+1E149">>,
    <<"U+1E2F0", "U+1E2F1", "U+1E2F2", "U+1E2F3", "U+1E2F4",
      "U+1E2F5", "U+1E2F6", "U+1E2F7", "U+1E2F8", "U+1E2F9">>,
    <<"U+1E950", "U+1E951", "U+1E952", "U+1E953", "U+1E954",
      "U+1E955", "U+1E956", "U+1E957", "U+1E958", "U+1E959">>,
    <<"U+1FBF0", "U+1FBF1", "U+1FBF2", "U+1FBF3", "U+1FBF4",
      "U+1FBF5", "U+1FBF6", "U+1FBF7", "U+1FBF8", "U+1FBF9">> >>

IsDigit(c) == \E r \in 1..Len(DIGITS) : \E d \in 1..10 : DIGITS[r][d] = c

DigitValue(c) ==
    (CHOOSE d \in 1..10 : \E r \in 1..Len(DIGITS) : DIGITS[r][d] = c) - 1

\* The whitespace int() skips at both ends: that of str.strip() without
\* the separators 0x1C to 0x1F.
INT_WHITESPACE == WHITESPACE \ {"", "", "", ""}

RECURSIVE IntLStrip(_)
IntLStrip(s) ==
    IF s # <<>> /\ s[1] \in INT_WHITESPACE THEN IntLStrip(Tail(s)) ELSE s

RECURSIVE IntRStrip(_)
IntRStrip(s) ==
    IF s # <<>> /\ s[Len(s)] \in INT_WHITESPACE
    THEN IntRStrip(SubSeq(s, 1, Len(s) - 1))
    ELSE s

IntStrip(s) == IntRStrip(IntLStrip(s))

\* The text int() reads once it has dropped the surrounding whitespace
\* and the sign.
Unsigned(s) ==
    LET t == IntStrip(s)
    IN  IF t # <<>> /\ t[1] \in {"+", "-"} THEN Tail(t) ELSE t

\* sys.get_int_max_str_digits(): int() raises ValueError on more digits.
INT_MAX_STR_DIGITS == 4300

\* The digits of a text, underscores left out.
DigitsOf(u) == SelectSeq(u, IsDigit)

\* int(s) does not raise ValueError: an optional sign, then decimal digits
\* with single underscores allowed between two digits, at most
\* INT_MAX_STR_DIGITS digits in all.
IsIntLiteral(s) ==
    LET u == Unsigned(s)
    IN  /\ u # <<>>
        /\ \A i \in 1..Len(u) : IsDigit(u[i]) \/ u[i] = "_"
        /\ IsDigit(u[1])
        /\ IsDigit(u[Len(u)])
        /\ \A i \in 1..(Len(u) - 1) : ~(u[i] = "_" /\ u[i + 1] = "_")
        /\ Len(DigitsOf(u)) <= INT_MAX_STR_DIGITS

\* A run of digits without its leading zeros; "0" when it has only zeros.
RECURSIVE DropLeadingZeros(_)
DropLeadingZeros(d) ==
    IF Len(d) > 1 /\ d[1] = "0" THEN DropLeadingZeros(Tail(d)) ELSE d

\* The magnitude of int(s) in decimal: every digit as the ASCII digit of
\* its value, underscores and leading zeros left out.  The integer is of
\* unbounded size, so it is kept as its decimal text.
Magnitude(s) ==
    LET d == DigitsOf(Unsigned(s))
    IN  DropLeadingZeros([i \in 1..Len(d) |-> ASCII_DIGITS[DigitValue(d[i]) + 1]])

\* int(s) for a text int() accepts, as its decimal text.
IntValue(s) ==
    IF IntStrip(s)[1] = "-" /\ Magnitude(s) # <<"0">>
    THEN <<"-">> \o Magnitude(s)
    ELSE Magnitude(s)

\* The decimal text of a natural number, and of an integer.
RECURSIVE NatText(_)
NatText(n) ==
    IF n < 10 THEN <<ASCII_DIGITS[n + 1]>>
    ELSE Append(NatText(n \div 10), ASCII_DIGITS[(n % 10) + 1])

IntText(n) == IF n < 0 THEN <<"-">> \o NatText(0 - n) ELSE NatText(n)

\* What rssi and snr return on error.
ERROR_LEVEL == 0 - 999

\* rssi, snr: `int(data) if ok and data else -999`, and -999 when int()
\* raises ValueError.  The returned integer is kept as its decimal text.
LevelOf(res) ==
    IF res[1] /\ res[2] # <<>> /\ IsIntLiteral(res[2])
    THEN IntValue(res[2])
    ELSE IntText(ERROR_LEVEL)

\* dev_eui: the data `if ok and data`, else LoRaError is raised.
DevEuiOf(res) ==
    IF res[1] /\ res[2] # <<>> THEN res[2] ELSE <<"Failed to get DevEUI">>

\* The properties dev_eui, rssi and snr after their exchange.
QueryReturned ==
    /\ fg_pc = "query"
    /\ fg_ex = "ret"
    /\ FgReturn([op |-> fg_cmd, arg |-> 0,
                 val |-> IF fg_cmd = "AT+DEVEUI?"
                         THEN DevEuiOf(fg_res)
                         ELSE LevelOf(fg_res)])
    /\ UNCHANGED <<objvars, wkvars, parsevars, calls, app>>

\* stop(): clear the running flag; wait for a live worker (at most 10 s).
CallStop ==
    /\ fg_pc = "idle"
    /\ calls > 0
    /\ calls' = calls - 1
    /\ _running' = FALSE
    /\ fg_pc' = "stop"
    /\ fg_sleep' = IF _worker_thread = "alive" THEN STOP_JOIN_TIMEOUT ELSE 0
    /\ fg_ret' = NO_RET
    /\ UNCHANGED <<_serial, _serial_lock, _joined, _queue, _worker_thread,
                   send_elapsed, wkvars, parsevars, fg_ex, fg_cmd, fg_res,
                   caller, cmd_idx, timeout, join_elapsed, at_tries, data,
                   app>>

\* stop(): the worker has exited or the 10 s are over; _cleanup.
StopCleanup ==
    /\ fg_pc = "stop"
    /\ _worker_thread # "alive" \/ fg_sleep = 0
    /\ _running' = FALSE
    /\ _serial' \in CleanupSerial
    /\ FgReturn([op |-> "stop", arg |-> 0, val |-> <<"ok">>])
    /\ UNCHANGED <<_serial_lock, _joined, _queue, _worker_thread,
                   send_elapsed, wkvars, parsevars, calls, app>>

\* ----------------------------------------------------- worker: _send_cmd
\* _send_cmd: the open check before the lock.
WkExCheck ==
    /\ wk_ex = "call"
    /\ wk_ex' = IF _serial # "open" THEN "ret" ELSE "lock"
    /\ UNCHANGED <<objvars, fgvars, parsevars, wk_pc, wk_res, wk_sleep, msg,
                   attempt, wait_time, success, tries>>

\* _send_cmd: take the lock, reset the input buffer, write AT+SEND=<hex>.
\* On a port stop() has closed meanwhile the write raises SerialException.
WkExAcquire ==
    /\ wk_ex = "lock"
    /\ LockFree
    /\ IF _serial = "open"
       THEN /\ _serial_lock' = "worker"
            /\ wk_ex' = "io"
            /\ wk_sleep' = ExchangeTime(CmdTimeout("AT+SEND"))
       ELSE wk_ex' = "ret" /\ UNCHANGED <<_serial_lock, wk_sleep>>
    /\ UNCHANGED <<_serial, _joined, _running, _queue, _worker_thread,
                   send_elapsed, fgvars, parsevars, wk_pc, wk_res,
                   msg, attempt, wait_time, success, tries>>

\* _send_cmd: the read loop ends, the reply is parsed, the lock released.
\* On a port stop() has closed meanwhile the read raises instead: see
\* WkExSerialError and WkExOtherError.
WkExRespond ==
    /\ wk_ex = "io"
    /\ _serial = "open"
    /\ \E r \in Replies : ReadEnds(r, wk_sleep) /\ wk_res' = ReadResponse(r)
    /\ wk_ex' = "ret"
    /\ wk_sleep' = 0
    /\ _serial_lock' = "free"
    /\ UNCHANGED <<_serial, _joined, _running, _queue, _worker_thread,
                   send_elapsed, fgvars, parsevars, wk_pc, msg,
                   attempt, wait_time, success, tries>>

\* _send_cmd: serial.SerialException inside the lock; the except clause
\* returns (False, "").
WkExSerialError ==
    /\ wk_ex = "io"
    /\ wk_res' = NO_RES
    /\ wk_ex' = "ret"
    /\ wk_sleep' = 0
    /\ _serial_lock' = LockAfterSerialError(_serial_lock)
    /\ UNCHANGED <<_serial, _joined, _running, _queue, _worker_thread,
                   send_elapsed, fgvars, parsevars, wk_pc, msg,
                   attempt, wait_time, success, tries>>

\* _send_cmd: the port raises an exception that is no SerialException; it
\* leaves _send_cmd and _do_send, the lock released.
WkExOtherError ==
    /\ wk_ex = "io"
    /\ wk_res' = NO_RES
    /\ wk_ex' = ExitOnOtherError
    /\ wk_sleep' = 0
    /\ _serial_lock' = "free"
    /\ UNCHANGED <<_serial, _joined, _running, _queue, _worker_thread,
                   send_elapsed, fgvars, parsevars, wk_pc, msg,
                   attempt, wait_time, success, tries>>

\* -------------------------------------------------- worker: _worker_loop
\* `while self._running`: queue.get(timeout=1), or the thread ends.
WkTop ==
    /\ wk_pc = "top"
    /\ IF _running
       THEN /\ wk_pc' = "get"
            /\ wk_sleep' = QUEUE_GET_TIMEOUT
            /\ UNCHANGED _worker_thread
       ELSE /\ wk_pc' = "exited"
            /\ _worker_thread' = "dead"
            /\ UNCHANGED wk_sleep
    /\ UNCHANGED <<_serial, _serial_lock, _joined, _running, _queue,
                   send_elapsed, fgvars, parsevars, wk_ex, wk_res, msg,
                   attempt, wait_time, success, tries>>

\* Fault in QueueGet: the newest message is taken.
QueueGetLast(q) == <<q[Len(q)], SubSeq(q, 1, Len(q) - 1)>>

\* Queue._get: popleft; the item and the rest.
QueueGet(q) == <<Head(q), Tail(q)>>

\* queue.get returns the head of the queue.
WkGet ==
    /\ wk_pc = "get"
    /\ _queue # <<>>
    /\ msg' = QueueGet(_queue)[1]
    /\ _queue' = QueueGet(_queue)[2]
    /\ tries' = 0
    /\ wk_sleep' = 0
    /\ wk_pc' = "got"
    /\ UNCHANGED <<_serial, _serial_lock, _joined, _running, _worker_thread,
                   send_elapsed, fgvars, parsevars, wk_ex, wk_res, attempt,
                   wait_time, success>>

\* queue.get raises Empty after its timeout: continue.
WkGetEmpty ==
    /\ wk_pc = "get"
    /\ _queue = <<>>
    /\ wk_sleep = 0
    /\ wk_pc' = "top"
    /\ UNCHANGED <<objvars, fgvars, parsevars, wk_ex, wk_res, wk_sleep, msg,
                   attempt, wait_time, success, tries>>

\* The locals of an iteration are dead once it ends.
WkLocalsCleared ==
    /\ msg' = NO_MSG
    /\ attempt' = 0
    /\ wait_time' = 0
    /\ success' = FALSE
    /\ tries' = 0

\* `self._queue.task_done(); break`: the thread leaves _worker_loop.
WkBreak ==
    /\ wk_pc' = "exited"
    /\ _worker_thread' = "dead"
    /\ WkLocalsCleared

\* Fault in RateLimitWait: no spacing wait at all.
RateLimitWaitNone(elapsed) == 0

\* wait_time = SEND_INTERVAL - elapsed when elapsed < SEND_INTERVAL.
RateLimitWait(elapsed) ==
    IF elapsed < SEND_INTERVAL THEN SEND_INTERVAL - elapsed ELSE 0

\* After the get: the stop check, then elapsed and wait_time.
WkGot ==
    /\ wk_pc = "got"
    /\ IF ~_running
       THEN WkBreak
       ELSE /\ wait_time' = RateLimitWait(send_elapsed)
            /\ wk_pc' = IF send_elapsed < SEND_INTERVAL
                        THEN "rate_wait" ELSE "retry"
            /\ attempt' = 0
            /\ success' = FALSE
            /\ UNCHANGED <<_worker_thread, msg, tries>>
    /\ UNCHANGED <<_serial, _serial_lock, _joined, _running, _queue,
                   send_elapsed, fgvars, parsevars, wk_ex, wk_res, wk_sleep>>

\* Fault in StopsAfterWait: no stop check after the spacing wait.
StopsAfterWaitNever(running) == FALSE

\* `if not self._running: task_done(); break` after the spacing wait.
StopsAfterWait(running) == ~running

\* `while wait_time > 0 and self._running`: sleep a chunk, or leave the
\* loop, check the stop flag and go on to the retry loop.
WkRateWait ==
    /\ wk_pc = "rate_wait"
    /\ IF wait_time > 0 /\ _running
       THEN /\ wk_sleep' = IF wait_time < 1 THEN wait_time ELSE 1
            /\ wk_pc' = "rate_sleep"
            /\ UNCHANGED <<_worker_thread, msg, attempt, wait_time, success,
                           tries>>
       ELSE /\ IF StopsAfterWait(_running)
               THEN WkBreak
               ELSE /\ wk_pc' = "retry"
                    /\ wait_time' = 0
                    /\ UNCHANGED <<_worker_thread, msg, attempt, success, tries>>
            /\ UNCHANGED wk_sleep
    /\ UNCHANGED <<_serial, _serial_lock, _joined, _running, _queue,
                   send_elapsed, fgvars, parsevars, wk_ex, wk_res>>

\* The chunk is slept: wait_time -= 1.0.
WkRateSlept ==
    /\ wk_pc = "rate_sleep"
    /\ wk_sleep = 0
    /\ wait_time' = IF wait_time > 1 THEN wait_time - 1 ELSE 0
    /\ wk_pc' = "rate_wait"
    /\ UNCHANGED <<objvars, fgvars, parsevars, wk_ex, wk_res, wk_sleep, msg,
                   attempt, success, tries>>

\* Fault in MayAttempt: one attempt more.
MayAttemptOneMore(a) == a < MAX_RETRIES + 1

\* `for attempt in range(self.MAX_RETRIES)`.
MayAttempt(a) == a < MAX_RETRIES

\* Head of the retry loop: the stop check, then _do_send, which sends
\* AT+SEND only when joined.
WkRetry ==
    /\ wk_pc = "retry"
    /\ IF MayAttempt(attempt) /\ _running
       THEN /\ tries' = tries + 1
            /\ wk_pc' = "sending"
            /\ wk_ex' = IF _joined THEN "call" ELSE "ret"
       ELSE /\ wk_pc' = "done"
            /\ UNCHANGED <<tries, wk_ex>>
    /\ UNCHANGED <<objvars, fgvars, parsevars, wk_res, wk_sleep, msg, attempt,
                   wait_time, success>>

\* _do_send returned, or raised into the retry loop's `except Exception`:
\* on ok it sleeps 3 s before it returns; otherwise sleep 2 s unless this
\* was the last attempt.
WkSent ==
    /\ wk_pc = "sending"
    /\ wk_ex \in {"ret", "raise"}
    /\ wk_ex' = "idle"
    /\ wk_res' = NO_RES
    /\ IF wk_res[1]
       THEN /\ wk_pc' = "rx_sleep"
            /\ wk_sleep' = RX_WINDOW_SLEEP
            /\ UNCHANGED attempt
       ELSE IF attempt < MAX_RETRIES - 1
            THEN /\ wk_pc' = "retry_sleep"
                 /\ wk_sleep' = RETRY_SLEEP
                 /\ UNCHANGED attempt
            ELSE /\ wk_pc' = "retry"
                 /\ attempt' = attempt + 1
                 /\ UNCHANGED wk_sleep
    /\ UNCHANGED <<objvars, fgvars, parsevars, msg, wait_time, success, tries>>

\* _do_send: time.sleep(3) is over; success = True; break.
WkRxSlept ==
    /\ wk_pc = "rx_sleep"
    /\ wk_sleep = 0
    /\ success' = TRUE
    /\ wk_pc' = "done"
    /\ UNCHANGED <<objvars, fgvars, parsevars, wk_ex, wk_res, wk_sleep, msg,
                   attempt, wait_time, tries>>

\* time.sleep(2) is over: the next attempt.
WkRetrySlept ==
    /\ wk_pc = "retry_sleep"
    /\ wk_sleep = 0
    /\ attempt' = attempt + 1
    /\ wk_pc' = "retry"
    /\ UNCHANGED <<objvars, fgvars, parsevars, wk_ex, wk_res, wk_sleep, msg,
                   success, wait_time, tries>>

\* Fault in AfterSequence: a message that was not delivered ends the
\* thread.
AfterSequenceFailureEnds(delivered) == IF delivered THEN "top" ELSE "exited"

\* The end of an iteration of `while self._running`, delivered or not:
\* back to the loop test.
AfterSequence(delivered) == "top"

\* After the retry loop: _last_send_time = time.time(); task_done().
WkDone ==
    /\ wk_pc = "done"
    /\ send_elapsed' = 0
    /\ wk_pc' = AfterSequence(success)
    /\ WkLocalsCleared
    /\ UNCHANGED <<_serial, _serial_lock, _joined, _running, _queue,
                   _worker_thread, fgvars, parsevars, wk_ex, wk_res, wk_sleep>>

\* ------------------------------------------------------------------ time
Dec(n) == IF n > 0 THEN n - 1 ELSE 0
Cap(n, max) == IF n < max THEN n + 1 ELSE n
InJoinPolling == fg_pc \in {"join_loop", "join_poll", "join_sleep"}

\* The foreground thread cannot take a step now: it sleeps, waits for the
\* module's reply or for the lock, waits for the worker in stop(), or the
\* application is between two calls.
FgWaiting ==
    \/ fg_pc \in {"idle", "dead"} /\ fg_ex = "idle"
    \/ fg_pc \in {"reboot_sleep", "join_sleep"} /\ fg_sleep > 0
    \/ fg_pc = "stop" /\ _worker_thread = "alive" /\ fg_sleep > 0
    \/ fg_ex = "io" /\ fg_sleep > 0
    \/ fg_ex = "lock" /\ ~LockFree

\* The worker thread cannot take a step now.
WkWaiting ==
    \/ wk_pc \in {"unstarted", "exited"}
    \/ wk_pc \in {"rate_sleep", "rx_sleep", "retry_sleep"} /\ wk_sleep > 0
    \/ wk_pc = "get" /\ _queue = <<>> /\ wk_sleep > 0
    \/ wk_ex = "io" /\ wk_sleep > 0
    \/ wk_ex = "lock" /\ ~LockFree

\* One second passes.  A thread that can run does so within the second:
\* time passes only while both threads wait.
Tick ==
    /\ FgWaiting
    /\ WkWaiting
    /\ send_elapsed' = Cap(send_elapsed, SEND_INTERVAL)
    /\ join_elapsed' = IF InJoinPolling THEN Cap(join_elapsed, timeout)
                       ELSE join_elapsed
    /\ fg_sleep' = Dec(fg_sleep)
    /\ wk_sleep' = Dec(wk_sleep)
    /\ UNCHANGED <<_serial, _serial_lock, _joined, _running, _queue,
                   _worker_thread, parsevars, fg_pc, fg_ex, fg_cmd, fg_res,
                   caller, cmd_idx, timeout, at_tries, data, fg_ret, calls,
                   app, wk_pc, wk_ex, wk_res, msg, attempt, wait_time, success,
                   tries>>

\* --------------------------------------------------------- specifications
FgExchange ==
    \/ FgExCheck \/ FgExAcquire \/ FgExRespond \/ FgExSerialError
    \/ FgExOtherError \/ FgExRaised
WkExchange ==
    \/ WkExCheck \/ WkExAcquire \/ WkExRespond \/ WkExSerialError
    \/ WkExOtherError
Construction ==
    \/ Construct \/ ConstructFail \/ ConnectRebooted \/ ConnectTestAt
    \/ ConnectTested
Join ==
    \/ JoinConfigured \/ JoinRequested \/ JoinLoop \/ JoinPolled \/ JoinSlept
    \/ StartWorker
    \/ WorkerStarted
Worker ==
    \/ WkTop \/ WkGet \/ WkGetEmpty \/ WkGot \/ WkRateWait \/ WkRateSlept
    \/ WkRetry \/ WkSent \/ WkRxSlept \/ WkRetrySlept \/ WkDone

Next ==
    \/ Construction \/ FgExchange \/ Join
    \/ CallSend \/ Send \/ CallJoin \/ CallQuery \/ QueryReturned
    \/ CallStop \/ StopCleanup
    \/ Worker \/ WkExchange
    \/ Tick

Spec == Init /\ [][Next]_vars

\* The burst producer: the application only calls send(), with numbered
\* payloads, as fast as it likes; the queue fills up to its capacity.
InitQueue ==
    /\ InitObject
    /\ calls = 0
    /\ app \in {[mode |-> "burst", n |-> 1, auto_join |-> b] : b \in BOOLEAN}
    /\ rx = <<>>
    /\ parsed = <<>>
    /\ InitLineIdle

NextQueue ==
    \/ Construction \/ FgExchange \/ Join
    \/ CallSend \/ Send
    \/ Worker \/ WkExchange
    \/ Tick

SpecQueue == InitQueue /\ [][NextQueue]_vars

\* The response parser alone, on every raw reply of at most MaxLen bytes.
InitParse ==
    /\ InitObject
    /\ calls = 0
    /\ app = [mode |-> "free", n |-> 0, auto_join |-> FALSE]
    /\ rx \in Texts
    /\ parsed = <<>>
    /\ InitLineIdle

\* _send_cmd, from the decode to the return, applied to rx.
ParseReply ==
    /\ parsed = <<>>
    /\ parsed' = ReadResponse(rx)
    /\ UNCHANGED <<objvars, fgvars, wkvars, rx, linevars>>

NextParse == ParseReply

SpecParse == InitParse /\ [][NextParse]_vars

\* ------------------------------------------------------ the serial line
\* _send_cmd step by step on an open port, with the module as a second
\* party that emits its reply to a command some seconds after receiving
\* it.  A chunk is the bytes of one reply, labelled with the number of the
\* command it answers.

\* Replies the module emits; each is one line.
LineReplies == Replies \ {<<>>}

\* The line delimiter the read loop looks for.
CRLF == <<"\r", "\n">>

\* The bytes of a sequence of chunks, in order.
RECURSIVE Flatten(_)
Flatten(chunks) ==
    IF chunks = <<>> THEN <<>> ELSE Head(chunks).text \o Flatten(Tail(chunks))

\* The state after _connect opened the port, before any exchange.
InitLine ==
    /\ _serial = "open"
    /\ _serial_lock = "free"
    /\ _joined = FALSE
    /\ _running = FALSE
    /\ _queue = <<>>
    /\ _worker_thread = NONE
    /\ send_elapsed = NEVER_SENT
    /\ fg_pc = "idle"
    /\ fg_ex = "idle"
    /\ fg_cmd = NONE
    /\ fg_res = NO_RES
    /\ fg_sleep = 0
    /\ caller = NONE
    /\ cmd_idx = 0
    /\ timeout = 0
    /\ join_elapsed = 0
    /\ at_tries = 0
    /\ data = 0
    /\ fg_ret = NO_RET
    /\ calls = 0
    /\ app = [mode |-> "free", n |-> 0, auto_join |-> FALSE]
    /\ wk_pc = "unstarted"
    /\ wk_ex = "idle"
    /\ wk_res = NO_RES
    /\ wk_sleep = 0
    /\ msg = NO_MSG
    /\ attempt = 0
    /\ wait_time = 0
    /\ success = FALSE
    /\ tries = 0
    /\ rx = <<>>
    /\ parsed = <<>>
    /\ InitLineIdle

\* _send_cmd is called with the port open and enters `with
\* self._serial_lock`; `response` is not yet assigned.
LineCall ==
    /\ line_pc = "idle"
    /\ line_cmd < MaxCmds
    /\ _serial = "open"
    /\ LockFree
    /\ _serial_lock' = "fg"
    /\ line_cmd' = line_cmd + 1
    /\ line_pc' = "reset"
    /\ response' = <<>>
    /\ line_res' = NO_RES
    /\ UNCHANGED <<_serial, _joined, _running, _queue, _worker_thread,
                   send_elapsed, fgvars, wkvars, rx, parsed, line_left,
                   input_buffer, module>>

\* self._serial.reset_input_buffer(): what has been received and not read
\* is discarded.
ResetInputBuffer(buffer) == <<>>

\* _send_cmd: reset_input_buffer().
LineReset ==
    /\ line_pc = "reset"
    /\ input_buffer' = ResetInputBuffer(input_buffer)
    /\ line_pc' = "write"
    /\ UNCHANGED <<objvars, fgvars, wkvars, rx, parsed, line_cmd, line_left,
                   line_res, response, module>>

\* _send_cmd: write and flush the command, then time.sleep(delay).  The
\* module receives the command and will emit reply `r` after `d` seconds.
LineWrite ==
    /\ line_pc = "write"
    /\ \E r \in LineReplies, d \in 0..MaxReplyDelay :
           module' = module \cup {[of |-> line_cmd, text |-> r, delay |-> d]}
    /\ line_pc' = "delay"
    /\ line_left' = ExchangeTime(DEFAULT_TIMEOUT)
    /\ UNCHANGED <<objvars, fgvars, wkvars, rx, parsed, line_cmd, line_res,
                   response, input_buffer>>

\* _send_cmd: the settle delay is over; end_time = time.time() + timeout
\* and response = b"".
LineSlept ==
    /\ line_pc = "delay"
    /\ line_left = DEFAULT_TIMEOUT
    /\ line_pc' = "read"
    /\ UNCHANGED <<objvars, fgvars, wkvars, rx, parsed, line_cmd, line_left,
                   line_res, response, input_buffer, module>>

\* _send_cmd, read loop: in_waiting is non-zero, everything received is
\* appended to response; a line delimiter in it ends the loop.
LineRead ==
    /\ line_pc = "read"
    /\ input_buffer # <<>>
    /\ response' = response \o input_buffer
    /\ input_buffer' = <<>>
    /\ line_pc' = IF Contains(Flatten(response'), CRLF) THEN "parse" ELSE "read"
    /\ UNCHANGED <<objvars, fgvars, wkvars, rx, parsed, line_cmd, line_left,
                   line_res, module>>

\* _send_cmd, read loop: time.time() < end_time no longer holds.
LineTimeout ==
    /\ line_pc = "read"
    /\ line_left = 0
    /\ line_pc' = "parse"
    /\ UNCHANGED <<objvars, fgvars, wkvars, rx, parsed, line_cmd, line_left,
                   line_res, response, input_buffer, module>>

\* _send_cmd: decode, strip, parse, return; the lock is released.
LineReturn ==
    /\ line_pc = "parse"
    /\ line_res' = ReadResponse(Flatten(response))
    /\ line_pc' = "idle"
    /\ line_left' = 0
    /\ _serial_lock' = "free"
    /\ UNCHANGED <<_serial, _joined, _running, _queue, _worker_thread,
                   send_elapsed, fgvars, wkvars, rx, parsed, line_cmd,
                   response, input_buffer, module>>

\* The module emits a reply whose delay has run out; the port receives it.
ModuleReply ==
    /\ \E m \in module :
        /\ m.delay = 0
        /\ module' = module \ {m}
        /\ input_buffer' = Append(input_buffer, [of |-> m.of, text |-> m.text])
    /\ UNCHANGED <<objvars, fgvars, wkvars, rx, parsed, line_pc, line_cmd,
                   line_left, line_res, response>>

\* A second passes on the line: while the caller sleeps in the settle
\* delay, polls an empty port in the read loop, or is between two
\* exchanges with a reply outstanding.  No reply is due at this instant.
LineTick ==
    /\ \A m \in module : m.delay > 0
    /\ \/ line_pc = "delay" /\ line_left > DEFAULT_TIMEOUT
       \/ line_pc = "read" /\ line_left > 0 /\ input_buffer = <<>>
       \/ line_pc = "idle" /\ module # {}
    /\ line_left' = Dec(line_left)
    /\ module' = {[m EXCEPT !.delay = m.delay - 1] : m \in module}
    /\ UNCHANGED <<objvars, fgvars, wkvars, rx, parsed, line_pc, line_cmd,
                   line_res, response, input_buffer>>

NextLine ==
    \/ LineCall \/ LineReset \/ LineWrite \/ LineSlept
    \/ LineRead \/ LineTimeout \/ LineReturn
    \/ ModuleReply
    \/ LineTick

SpecLine == InitLine /\ [][NextLine]_vars

\* ----------------------------------------------------------------- claims
\* An exchange is in flight from the write of its command to its return.
InFlight == {t \in {"fg", "worker"} :
                \/ t = "fg" /\ fg_ex = "io"
                \/ t = "worker" /\ wk_ex = "io"}

\* C1: in every interleaving of the foreground thread (join, dev_eui,
\* rssi, snr) and the worker (AT+SEND), at most one exchange is in flight
\* on the serial endpoint, and it is the lock holder's.
C1_OneExchangeInFlight ==
    /\ Cardinality(InFlight) <= 1
    /\ \A t \in InFlight : _serial_lock = t

\* C1 witness: the worker waits for the lock while a foreground exchange
\* is in flight.
C1_Witness ==
    /\ fg_ex = "io"
    /\ wk_ex = "lock"
    /\ _serial_lock = "fg"

\* The foreground thread executes the body of send() in this step.
SendStep == fg_pc = "send" /\ fg_pc' = "idle"

\* C2: send(p) with 1 <= len(p) <= 242 on a joined session whose queue
\* holds fewer than 20 messages returns True and appends exactly one
\* message carrying p (with retries = 0) to the tail of the queue.
C2_SendAccepts ==
    [][(/\ SendStep
        /\ _joined
        /\ data \in 1..242
        /\ Len(_queue) < 20)
       => /\ fg_ret'.op = "send"
          /\ fg_ret'.val = <<"True">>
          /\ Len(_queue') = Len(_queue) + 1
          /\ _queue' = _queue \o <<[data |-> data, retries |-> 0]>>]_vars

\* C2 witness: send() has returned True for a payload of 242 bytes, which
\* is now the last of several queued messages.
C2_Witness ==
    /\ fg_pc = "idle"
    /\ fg_ret = [op |-> "send", arg |-> 242, val |-> <<"True">>]
    /\ Len(_queue) > 2
    /\ _queue[Len(_queue)].data = 242
    /\ _queue[1].data # 242

\* C3: send(p) with len(p) = 0 or len(p) > 242 returns False and leaves
\* the queue unchanged, joined or not.
C3_SendRejectsBadLength ==
    [][(SendStep /\ (data = 0 \/ data > 242))
       => /\ fg_ret'.op = "send"
          /\ fg_ret'.val = <<"False">>
          /\ _queue' = _queue]_vars

\* C3 witness: on a joined session with room in the queue, send() has
\* returned False for an empty payload.
C3_Witness ==
    /\ fg_pc = "idle"
    /\ fg_ret = [op |-> "send", arg |-> 0, val |-> <<"False">>]
    /\ _joined
    /\ Len(_queue) \in 1..19

\* C4: at queue depth 20 send(p) returns False at once, the message is
\* not stored and the 20 entries keep their order; the depth never
\* exceeds 20.
C4_FullQueueRejects ==
    /\ [](Len(_queue) <= 20)
    /\ [][(SendStep /\ Len(_queue) = 20)
          => /\ fg_ret'.op = "send"
             /\ fg_ret'.val = <<"False">>
             /\ _queue' = _queue]_vars

\* C4 witness: send() has returned False for an admissible payload
\* because the queue holds 20 messages.
C4_Witness ==
    /\ fg_pc = "idle"
    /\ fg_ret.op = "send"
    /\ fg_ret.arg \in 1..242
    /\ fg_ret.val = <<"False">>
    /\ Len(_queue) = 20

\* The text after the leftmost "=" of t.
AfterFirstEq(t) ==
    LET first == CHOOSE i \in 1..Len(t) :
                     t[i] = "=" /\ ~\E j \in 1..Len(t) : j < i /\ t[j] = "="
    IN  [k \in 1..(Len(t) - first) |-> t[first + k]]

\* The four parsing rules, on the trimmed text t.
ExpectedResponse(t) ==
    CASE t = <<"O", "K">> -> <<TRUE, <<>>>>
      [] t # <<"O", "K">>
         /\ (\E i \in 1..Len(t) : i + 2 <= Len(t) /\ t[i] = "="
                                  /\ t[i + 1] = "O" /\ t[i + 2] = "K")
           -> <<TRUE, <<>>>>
      [] t # <<"O", "K">>
         /\ ~(\E i \in 1..Len(t) : i + 2 <= Len(t) /\ t[i] = "="
                                   /\ t[i + 1] = "O" /\ t[i + 2] = "K")
         /\ (\E i \in 1..Len(t) : t[i] = "=")
           -> <<TRUE, Strip(AfterFirstEq(t))>>
      [] OTHER -> <<FALSE, <<>>>>

\* C5: for every reply text the parser returns (true, none) if the trimmed
\* text is OK, else (true, none) if it contains =OK, else (true, trimmed
\* text after the first "=") if it contains "=", else (false, none).
C5_ParseRules ==
    parsed # <<>> => parsed = ExpectedResponse(Strip(Decode(rx)))

\* C5 witness: a reply with a value after "=", surrounded by blanks.
C5_Witness ==
    /\ rx = <<"1", "=", " ", "1">>
    /\ parsed = <<TRUE, <<"1">>>>

\* C6: the first send attempt for a message starts no earlier than
\* SEND_INTERVAL (30 s) after the previous message's attempt sequence
\* ended: whenever the worker has begun the attempts for the message it
\* holds, at least 30 s have passed since _last_send_time was set.
C6_DutyCycle == tries >= 1 => send_elapsed >= 30

\* C6 witness: the first attempt for a later message is in flight, just
\* 30 s after the earlier message's attempts ended.
C6_Witness ==
    /\ wk_pc = "sending"
    /\ wk_ex = "io"
    /\ tries = 1
    /\ send_elapsed = 30

\* C7 as stated: a message whose every attempt fails is attempted exactly
\* 3 times before it is dropped, and none more than 3 times.
C7_AsStated ==
    /\ tries <= 3
    /\ (wk_pc = "done" /\ ~success /\ tries >= 1) => tries = 3

\* C7, amended: no message is attempted more than 3 times; a message
\* whose every attempt fails is attempted exactly 3 times unless the stop
\* flag is set during its attempt sequence; after an attempt that returned
\* ok it is not attempted again; the message left the queue (queueDepth
\* one less) when the worker took it, and when the sequence ends it is
\* dropped, not put back on the queue.
C7_RetryBound ==
    /\ [](tries <= 3)
    /\ []((wk_pc = "done" /\ ~success /\ _running) => tries = 3)
    /\ [][(msg = NO_MSG /\ msg' # NO_MSG)
          => (msg' = Head(_queue) /\ Len(_queue') = Len(_queue) - 1)]_vars
    /\ [](success => wk_pc = "done")
    /\ [][wk_pc = "rx_sleep" => (tries' = tries /\ wk_pc' \in {"rx_sleep", "done"})]_vars
    /\ [][(wk_pc = "done" /\ wk_pc' # "done")
          => (msg' = NO_MSG /\ _queue' = _queue)]_vars

\* C7 witness: three failed attempts, the worker not stopped, the message
\* about to be dropped.
C7_Witness ==
    /\ wk_pc = "done"
    /\ ~success
    /\ _running
    /\ tries = 3
    /\ msg.data \in 1..242

\* The foreground thread takes the result of a join-status poll.
PollReturnStep == fg_pc = "join_poll" /\ fg_ex = "ret" /\ fg_ex' # "ret"

\* join() returns success: to the application, or to __init__, which goes
\* on to start the worker.
JoinSucceeds ==
    \/ fg_pc' = "idle" /\ fg_ret'.op = "join" /\ fg_ret'.val = <<"ok">>
    \/ caller = "ctor" /\ fg_pc' = "start_worker"

\* C8: a join-status poll is issued only before the timeout; when one
\* returns ok with value "1", join() sets joined and returns success;
\* joined becomes true in no other step.
C8_JoinedOnAccept ==
    [][/\ (fg_pc' = "join_poll" /\ fg_pc # "join_poll")
          => (fg_pc = "join_loop" /\ join_elapsed < timeout)
       /\ (PollReturnStep /\ fg_res = <<TRUE, <<"1">>>>)
          => (_joined' /\ JoinSucceeds)
       /\ (_joined' # _joined)
          => (_joined' /\ PollReturnStep /\ fg_res = <<TRUE, <<"1">>>>)]_vars

\* C8 witness: an explicit join() has returned success; the session is
\* joined and no worker was started.
C8_Witness ==
    /\ fg_pc = "idle"
    /\ fg_ret.op = "join"
    /\ fg_ret.val = <<"ok">>
    /\ _joined
    /\ _worker_thread = "none"

\* join's poll loop ends in this step.
LeavesPolling == InJoinPolling /\ ~InJoinPolling'

\* C9 as stated: after join() has failed with the join-timeout error the
\* session is not joined.
C9_AsStated ==
    (fg_pc = "idle" /\ fg_ret.op = "join" /\ fg_ret.val = <<"Join timeout">>)
        => ~_joined

\* C9, amended: the poll loop ends on a poll that returned ok with "1";
\* or, once the timeout has elapsed, with the join-timeout error; or on
\* an exception that left a poll's exchange, which ends join() as that
\* error; joined is left as it was in the last two cases (false unless an
\* earlier join had succeeded); and the loop always ends.
C9_JoinTimesOut ==
    /\ [][LeavesPolling
          => \/ fg_pc = "join_poll" /\ fg_ex = "ret" /\ fg_res = <<TRUE, <<"1">>>>
             \/ /\ fg_pc = "join_loop"
                /\ join_elapsed >= timeout
                /\ fg_pc' \in {"idle", "dead"}
                /\ fg_ret'.val = <<"Join timeout">>
                /\ _joined' = _joined
             \/ /\ fg_pc = "join_poll"
                /\ fg_ex = "raise"
                /\ fg_pc' \in {"idle", "dead"}
                /\ fg_ret'.val = IO_ERROR
                /\ _joined' = _joined]_vars
    /\ InJoinPolling ~> ~InJoinPolling

\* C9 witness: an explicit join() has failed with the join-timeout error
\* and the session is not joined.
C9_Witness ==
    /\ fg_pc = "idle"
    /\ fg_ret.op = "join"
    /\ fg_ret.val = <<"Join timeout">>
    /\ ~_joined

\* The foreground thread takes the result of a configuration command.
ConfigReturnStep == fg_pc = "join_config" /\ fg_ex = "ret" /\ fg_ex' # "ret"

\* C10: a failed AT+JOINEUI or AT+APPKEY ends join at once with an error
\* naming the command, no exchange begun; a failed advisory command is
\* ignored and the next command of the sequence is issued.
C10_CriticalAborts ==
    [][(ConfigReturnStep /\ ~fg_res[1])
       => IF fg_cmd \in {"AT+JOINEUI", "AT+APPKEY"}
          THEN /\ fg_pc' \in {"idle", "dead"}
               /\ fg_ex' = "idle"
               /\ fg_ret'.val = <<"Failed to execute", fg_cmd>>
               /\ _joined' = _joined
          ELSE /\ fg_pc' = "join_config"
               /\ fg_ex' = "call"
               /\ cmd_idx' = cmd_idx + 1
               /\ fg_cmd' = config_commands[cmd_idx + 1].cmd
               /\ fg_ret' = fg_ret]_vars

\* C10 witness: an explicit join() was aborted by a failed AT+APPKEY.
C10_Witness ==
    /\ fg_pc = "idle"
    /\ fg_ex = "idle"
    /\ fg_ret.op = "join"
    /\ fg_ret.val = <<"Failed to execute", "AT+APPKEY">>

\* The order in which join() issues its commands before it polls.
JoinOrder == <<
    "AT+LORAMODE=LORAWAN", "AT+JOINTYPE=OTAA", "AT+REGION", "AT+CLASS=CLASS_A",
    "AT+DATARATE", "AT+EIRP=14", "AT+ADR=0", "AT+UPLINKTYPE=UNCONFIRMED",
    "AT+JOINEUI", "AT+APPKEY", "AT+JOIN=1" >>

\* The positions of the foreground thread inside join().
JoinPcs == {"join_config", "join_request", "join_loop", "join_poll", "join_sleep"}

\* join() begins an exchange in this step.
JoinIssues == fg_ex' = "call" /\ fg_ex # "call" /\ fg_pc' \in JoinPcs

\* C11: join() issues the ten configuration commands in their fixed order
\* (AT+JOINEUI and AT+APPKEY last), each once, then AT+JOIN=1, then only
\* AT+JOIN? polls; polling begins only after the join request returned
\* ok, and a failed join request ends join with the join-rejected error,
\* no exchange begun.
C11_JoinOrder ==
    /\ [][JoinIssues
          => \/ fg_pc \notin JoinPcs /\ fg_cmd' = JoinOrder[1]
             \/ \E k \in 1..10 : /\ fg_cmd = JoinOrder[k]
                                 /\ fg_ex = "ret"
                                 /\ fg_cmd' = JoinOrder[k + 1]
             \/ fg_cmd' = "AT+JOIN?" /\ fg_pc = "join_loop"]_vars
    /\ [][(fg_pc' = "join_loop" /\ fg_pc # "join_loop")
          => \/ fg_pc = "join_request" /\ fg_cmd = "AT+JOIN=1" /\ fg_res[1]
             \/ fg_pc = "join_sleep"]_vars
    /\ [][(fg_pc' = "join_sleep" /\ fg_pc # "join_sleep")
          => (fg_pc = "join_poll" /\ fg_ex = "ret")]_vars
    /\ [][(fg_pc = "join_request" /\ fg_ex = "ret" /\ fg_ex' # "ret"
           /\ ~fg_res[1])
          => /\ fg_pc' \in {"idle", "dead"}
             /\ fg_ex' = "idle"
             /\ fg_ret'.val = <<"Join request rejected by module">>
             /\ _joined' = _joined]_vars

\* C11 witness: all eleven commands went out in order and the second
\* AT+JOIN? poll of an explicit join() is on the wire.
C11_Witness ==
    /\ fg_pc = "join_poll"
    /\ fg_ex = "io"
    /\ fg_cmd = "AT+JOIN?"
    /\ caller = "app"
    /\ join_elapsed >= JOIN_POLL_SLEEP

\* C12: the joined flag only ever changes from false to true, in the step
\* in which join() takes a poll result of ok with "1"; no step (a join()
\* that fails later, a failed or dropped send, stop(), _cleanup) sets it
\* back to false.
C12_JoinedMonotonic ==
    /\ [][_joined => _joined']_vars
    /\ [][(~_joined /\ _joined')
          => (fg_pc = "join_poll" /\ fg_ex = "ret" /\ JoinAccepted(fg_res))]_vars

\* C12 witness: on a joined session a later join() has failed and the
\* flag is still set.
C12_Witness ==
    /\ _joined
    /\ fg_pc = "idle"
    /\ fg_ret.op = "join"
    /\ fg_ret.val # <<"ok">>
    /\ fg_ret.val # <<"Join timeout">>

\* C13: the worker thread is started only by the constructor, in the step
\* after its join() returned from an accepted poll: never during a join's
\* polling, never after a join that failed; and whenever the worker is
\* alive the session is joined.
C13_WorkerAfterJoin ==
    /\ [][(wk_pc = "unstarted" /\ wk_pc' # "unstarted")
          => (fg_pc = "start_worker" /\ _joined /\ ~InJoinPolling)]_vars
    /\ [][(fg_pc' = "start_worker" /\ fg_pc # "start_worker")
          => (fg_pc = "join_poll" /\ fg_ex = "ret" /\ JoinAccepted(fg_res))]_vars
    /\ [](_worker_thread = "alive" => _joined)
    /\ [](fg_pc = "dead" => wk_pc = "unstarted")

\* C13 witness: the constructor's join succeeded, the worker has just
\* been started and waits on the empty queue.
C13_Witness ==
    /\ _worker_thread = "alive"
    /\ _joined
    /\ wk_pc = "get"
    /\ _queue = <<>>
    /\ fg_pc = "idle"
    /\ fg_ret.op = "init"

\* The worker's positions outside an attempt sequence: the loop head, the
\* queue wait, the stop check after the get, the spacing wait, the end.
StopWaits == {"top", "get", "got", "rate_wait", "rate_sleep", "exited"}

\* C14: once the stop flag is cleared while the worker is in its spacing
\* wait or waiting on the queue, the worker never begins an attempt (it
\* stays outside the attempt sequence, no exchange, and the flag stays
\* cleared: so no AT+SEND is written from then on, before or after stop()
\* returns and whether or not the port could be closed); stop() returns
\* to the application; a worker that has exited stays so, begins no
\* exchange and takes nothing from the queue; and a stop() called in
\* those waits does return with the worker gone.
C14_StopInWait ==
    /\ [][(~_running /\ wk_pc \in StopWaits)
          => (wk_pc' \in StopWaits /\ wk_ex' = "idle" /\ tries' = 0
              /\ ~_running')]_vars
    /\ [][(fg_pc = "stop" /\ fg_pc' # "stop")
          => (fg_pc' = "idle" /\ fg_ret'.op = "stop")]_vars
    /\ [][wk_pc = "exited"
          => (wk_pc' = "exited" /\ wk_ex' = "idle"
              /\ Len(_queue') >= Len(_queue))]_vars
    /\ (fg_pc = "stop" /\ wk_pc \in StopWaits)
           ~> (fg_pc = "idle" /\ wk_pc = "exited")

\* C14 witness: stop() has cleared the flag and waits for the worker, which
\* is in its spacing wait holding a message it has not attempted.
C14_Witness ==
    /\ fg_pc = "stop"
    /\ ~_running
    /\ wk_pc \in {"rate_wait", "rate_sleep"}
    /\ msg # NO_MSG
    /\ tries = 0
    /\ wait_time > 0

\* C15: while a thread holds the channel lock inside an exchange the
\* serial endpoint is open: stop() and _cleanup never close it under an
\* exchange in flight.
C15_AsStated == _serial_lock # "free" => _serial = "open"

\* The burst producer's payloads are numbered 1..BurstPayloads in the
\* order it sends them, round and round.
BurstIndex(d) == IF d = MAX_PAYLOAD THEN BurstPayloads ELSE d
BurstFollows(d, e) == BurstIndex(e) = (BurstIndex(d) % BurstPayloads) + 1

\* C16: the queue changes only by an accepted send() adding at the tail or
\* the worker taking the head; the worker takes a message only when it
\* holds none (the previous attempt sequence is over), keeps it until its
\* sequence has ended and attempts only the message it holds; so with the
\* producer's payloads numbered in send order, the queue is always a run
\* of consecutive numbers, its head follows the message the worker holds
\* and its tail precedes the next payload to be sent.
C16_Fifo ==
    /\ [][\/ _queue' = _queue
          \/ /\ fg_pc = "send"
             /\ _queue' = Append(_queue, QueuedMessage(data))
          \/ /\ _queue # <<>>
             /\ wk_pc = "get" /\ msg = NO_MSG /\ tries = 0
             /\ msg' = Head(_queue)
             /\ _queue' = Tail(_queue)]_vars
    /\ [][msg # NO_MSG => msg' \in {msg, NO_MSG}]_vars
    /\ [][tries' > tries => (msg # NO_MSG /\ msg' = msg)]_vars
    /\ [](\A i \in 1..(Len(_queue) - 1) :
              BurstFollows(_queue[i].data, _queue[i + 1].data))
    /\ []((msg # NO_MSG /\ _queue # <<>>)
              => BurstFollows(msg.data, _queue[1].data))
    /\ [](_queue # <<>>
              => BurstFollows(_queue[Len(_queue)].data, BurstPayload(app.n)))

\* C16 witness: the worker is attempting the second message while the
\* third and later ones wait in the queue in their order.
C16_Witness ==
    /\ wk_pc = "sending"
    /\ wk_ex = "io"
    /\ msg.data = 2
    /\ Len(_queue) >= 3
    /\ _queue[1].data = 3
    /\ _queue[3].data = MAX_PAYLOAD

\* C17: the counter of the message the worker holds equals the number of
\* send attempts made for it so far.
C17_AsStated == msg # NO_MSG => msg.retries = tries

\* C18: while the worker waits out the 3 s receive windows after an
\* AT+SEND that returned ok, no other exchange begins on the serial
\* endpoint.
C18_AsStated ==
    [][(wk_pc = "rx_sleep" /\ wk_sleep > 0)
       => ~(fg_ex # "io" /\ fg_ex' = "io")]_vars

\* An I/O failure ends an exchange of the foreground thread, of the
\* worker, in this step.
FgIoFailure == FgExSerialError \/ FgExOtherError
WkIoFailure == WkExSerialError \/ WkExOtherError

\* C19: the lock is held exactly while a thread is between the write and
\* the return of an exchange; whichever way the exchange ends (a parsed
\* reply, the timeout, an I/O failure) the lock is free in the next state;
\* and an I/O failure hands ok = false to the caller at its call site: it
\* does not leave the exchange as an exception.
C19_AsStated ==
    /\ [](_serial_lock = "fg" <=> fg_ex = "io")
    /\ [](_serial_lock = "worker" <=> wk_ex = "io")
    /\ [][(fg_ex = "io" /\ fg_ex' # "io") => _serial_lock' = "free"]_vars
    /\ [][(wk_ex = "io" /\ wk_ex' # "io") => _serial_lock' = "free"]_vars
    /\ [][FgIoFailure
          => (fg_ex' = "ret" /\ ~fg_res'[1] /\ fg_pc' = fg_pc)]_vars
    /\ [][WkIoFailure
          => (wk_ex' = "ret" /\ ~wk_res'[1] /\ wk_pc' = wk_pc)]_vars

\* C20: the worker thread ends only in a step taken with the stop flag
\* cleared; after an attempt sequence, failed or not, it is back at the
\* head of its loop, and a failed attempt leaves it in the retry loop; so
\* after a message was dropped with another one queued, the first attempt
\* for a next message begins, unless the stop flag is cleared first.
C20_WorkerSurvives ==
    /\ [][(wk_pc # "exited" /\ wk_pc' = "exited") => ~_running]_vars
    /\ [](_worker_thread = "dead" => ~_running)
    /\ [][(wk_pc = "done" /\ wk_pc' # "done") => wk_pc' = "top"]_vars
    /\ [][(wk_pc = "sending" /\ wk_pc' # "sending")
          => wk_pc' \in {"rx_sleep", "retry_sleep", "retry"}]_vars
    /\ (wk_pc = "done" /\ ~success /\ _queue # <<>>)
           ~> (~_running \/ (wk_pc = "sending" /\ tries = 1))

\* C20 witness: a message is being dropped after three failed attempts,
\* the stop flag is not cleared and another message is queued.
C20_Witness ==
    /\ wk_pc = "done"
    /\ ~success
    /\ tries = MAX_RETRIES
    /\ _running
    /\ _queue # <<>>

\* stop() has been called: it is waiting for the worker, or it has
\* returned and left the port closed or the started worker's flag cleared.
StopCalled ==
    \/ fg_pc = "stop"
    \/ _serial = "closed"
    \/ _worker_thread # NONE /\ ~_running

\* C21: on a joined session, a message that send() accepted and that is
\* waiting in the queue is followed by the first attempt for a message
\* (messages being taken in order), unless stop() is called; whichever
\* way the session was joined.
C21_AsStated ==
    (_joined /\ _queue # <<>>)
        ~> (StopCalled \/ (_queue = <<>> /\ wk_pc = "sending" /\ tries = 1))

\* C22: the response an exchange returned for a command was read only from
\* bytes the module emitted in reply to that command, whatever the
\* module's reply delays were.
C22_AsStated ==
    (line_pc = "idle" /\ line_cmd > 0)
        => \A i \in 1..Len(response) : response[i].of = line_cmd

\* The threads are scheduled, time passes, and every exchange ends (the
\* module replies or the read loop times out).
FgProgram ==
    \/ Construct \/ ConnectRebooted \/ ConnectTestAt \/ ConnectTested
    \/ FgExchange \/ Join \/ Send \/ QueryReturned \/ StopCleanup

\* The whole driver under fair scheduling, the application making at most
\* LiveCalls calls.
InitLive ==
    /\ InitObject
    /\ calls = LiveCalls
    /\ app \in {[mode |-> "free", n |-> 0, auto_join |-> b] : b \in BOOLEAN}
    /\ rx = <<>>
    /\ parsed = <<>>
    /\ InitLineIdle

FairSpec ==
    /\ InitLive
    /\ [][Next]_vars
    /\ WF_vars(Tick)
    /\ WF_vars(FgProgram)
    /\ WF_vars(Worker \/ WkExchange)

\* An application that sends and stops, under fair scheduling.
NextStop ==
    \/ Construction \/ FgExchange \/ Join
    \/ CallSend \/ Send \/ CallStop \/ StopCleanup
    \/ Worker \/ WkExchange
    \/ Tick

FairStop ==
    /\ Init
    /\ [][NextStop]_vars
    /\ WF_vars(Tick)
    /\ WF_vars(FgProgram)
    /\ WF_vars(Worker \/ WkExchange)

====
